---------------------------- MODULE Spec2Model ----------------------------
(***************************************************************************)
(* Model of go-gin-api's two infrastructure packages:                      *)
(*   pkg/shutdown : the graceful-shutdown hook (NewHook/WithSignals/Close) *)
(*   pkg/logger   : the zap logger factory (options, NewJSONLogger,        *)
(*                  WrapMeta) together with the routing of emitted records *)
(* Both packages live in src/pkg/logger/logger.go (the shutdown package    *)
(* starts at line 272 of that file).                                       *)
(***************************************************************************)
EXTENDS Integers, Sequences, FiniteSets, TLC

(***************************************************************************)
(* Bounds of the model.                                                    *)
(***************************************************************************)
MaxSignals == 3    \* signals the environment raises during one run
MaxFuncs == 3      \* callbacks passed to Close
MaxOpts == 3       \* options passed to NewJSONLogger
MaxEmits == 2      \* records emitted through one logger

(***************************************************************************)
(*                      PART I : package shutdown                          *)
(***************************************************************************)
VARIABLES
    registered,  \* signals for which signal.Notify(h.ctx, s) is in effect
    added,       \* every signal handed to WithSignals after NewHook (history)
    ctx,         \* h.ctx : the buffered channel, as the sequence it holds
    pc,          \* where the thread that owns the hook is
    funcs,       \* the argument list of Close
    idx,         \* index of the range loop of Close (1-based)
    trace,       \* what the callbacks did, in order: <<event, position, callback>>
    got,         \* the signal Close read from h.ctx
    nsig,        \* signals raised so far
    firstReg,    \* the first raised signal that was registered when raised, and where pc was
    dropped,     \* a registered signal found the slot full
    late,        \* a signal of the hook's set was raised after signal.Stop
    ignored      \* a signal outside the hook's set was raised before signal.Stop

hvars == <<registered, added, ctx, pc, funcs, idx, trace, got, nsig, firstReg,
           dropped, late, ignored>>

\* package logger
VARIABLES
    lpc,       \* "args": the caller evaluates the option constructors;
               \* "panicked": one of them panicked; "built": NewJSONLogger
               \* returned; "exited": a Fatal record ended the process
    opts,      \* the options evaluated so far (the arguments of NewJSONLogger)
    logger,    \* what NewJSONLogger returned
    err,       \* the error NewJSONLogger returned
    stdout,    \* records written to os.Stdout
    stderr,    \* records and zap's internal error lines written to os.Stderr
    file,      \* records in the log file
    emitted    \* the emissions made so far: [sev, err, metas]

lvars == <<lpc, opts, logger, err, stdout, stderr, file, emitted>>

vars == <<hvars, lvars>>

None == "none"

DefaultSignals == {"SIGINT", "SIGTERM"}
ExtraSignals == {"SIGHUP", "SIGUSR1"}
AllSignals == DefaultSignals \cup ExtraSignals

Callbacks == {"a", "b"}

\* make(chan os.Signal, 1)
ChanCap == 1

RECURSIVE SeqsUpTo(_, _)
SeqsUpTo(S, n) ==
    IF n = 0 THEN {<<>>}
    ELSE LET shorter == SeqsUpTo(S, n - 1)
         IN  shorter \cup {Append(q, x) : q \in {r \in shorter : Len(r) = n - 1}, x \in S}

FuncLists == SeqsUpTo(Callbacks, MaxFuncs)

\* signal.Notify(h.ctx, s): s is added to the set relayed to the channel
Notify(reg, s) == reg \cup {s}

RECURSIVE NotifyAll(_, _)
NotifyAll(reg, S) ==
    IF S = {} THEN reg
    ELSE LET s == CHOOSE x \in S : TRUE
         IN  NotifyAll(Notify(reg, s), S \ {s})

\* signal.Stop(h.ctx): undoes every Notify on the channel
SignalStopKeeps(reg) == reg
SignalStop(reg) == {}

\* The relay of package os/signal onto the channel of line 299: a non-blocking
\* send, to a channel that asked for the signal; a full channel loses it.
DeliverQueues(c, reg, s) == IF s \in reg THEN Append(c, s) ELSE c
Deliver(c, reg, s) ==
    IF s \in reg /\ Len(c) < ChanCap THEN Append(c, s) ELSE c

\* for _, f := range funcs : the callback of iteration i
CallbackAtReversed(fs, i) == <<Len(fs) + 1 - i, fs[Len(fs) + 1 - i]>>
CallbackAt(fs, i) == <<i, fs[i]>>

Stopped == pc \in {"dispatching", "running", "returned", "panicked"}

HookInit ==
    /\ registered = NotifyAll({}, DefaultSignals)
    /\ added = {}
    /\ ctx = <<>>
    /\ pc = "idle"
    /\ funcs = <<>>
    /\ idx = 0
    /\ trace = <<>>
    /\ got = None
    /\ nsig = 0
    /\ firstReg = [sig |-> None, at |-> None]
    /\ dropped = FALSE
    /\ late = FALSE
    /\ ignored = FALSE

\* hook.WithSignals(signals...)
WithSignals(S) ==
    /\ pc = "idle"
    /\ registered' = NotifyAll(registered, S)
    /\ added' = added \cup S
    /\ UNCHANGED <<ctx, pc, funcs, idx, trace, got, nsig, firstReg, dropped, late, ignored>>
    /\ UNCHANGED lvars

\* The operating system raises signal s.
SignalArrives(s) ==
    /\ nsig < MaxSignals
    /\ nsig' = nsig + 1
    /\ ctx' = Deliver(ctx, registered, s)
    /\ firstReg' = IF firstReg.sig = None /\ s \in registered
                   THEN [sig |-> s, at |-> pc] ELSE firstReg
    /\ dropped' = (dropped \/ (s \in registered /\ Len(ctx) >= ChanCap))
    /\ late' = (late \/ (Stopped /\ s \in DefaultSignals \cup added))
    /\ ignored' = (ignored \/ (~Stopped /\ s \notin DefaultSignals \cup added))
    /\ UNCHANGED <<registered, added, pc, funcs, idx, trace, got>>
    /\ UNCHANGED lvars

\* Close(funcs...) is called
CloseCall(fs) ==
    /\ pc = "idle"
    /\ pc' = "waiting"
    /\ funcs' = fs
    /\ UNCHANGED <<registered, added, ctx, idx, trace, got, nsig, firstReg, dropped, late, ignored>>
    /\ UNCHANGED lvars

\* select { case <-h.ctx: }
CloseReceiveNoWait ==
    /\ pc = "waiting"
    /\ got' = IF ctx # <<>> THEN Head(ctx) ELSE "SIGINT"
    /\ ctx' = IF ctx # <<>> THEN Tail(ctx) ELSE ctx
    /\ pc' = "received"
    /\ UNCHANGED <<registered, added, funcs, idx, trace, nsig, firstReg, dropped, late, ignored>>
    /\ UNCHANGED lvars
CloseReceive ==
    /\ pc = "waiting"
    /\ ctx # <<>>
    /\ got' = Head(ctx)
    /\ ctx' = Tail(ctx)
    /\ pc' = "received"
    /\ UNCHANGED <<registered, added, funcs, idx, trace, nsig, firstReg, dropped, late, ignored>>
    /\ UNCHANGED lvars

\* signal.Stop(h.ctx), then the range loop starts
CloseStop ==
    /\ pc = "received"
    /\ registered' = SignalStop(registered)
    /\ idx' = 1
    /\ pc' = "dispatching"
    /\ UNCHANGED <<added, ctx, funcs, trace, got, nsig, firstReg, dropped, late, ignored>>
    /\ UNCHANGED lvars

\* f() of iteration idx is entered
CallbackStart ==
    /\ pc = "dispatching"
    /\ idx <= Len(funcs)
    /\ trace' = Append(trace, <<"call">> \o CallbackAt(funcs, idx))
    /\ pc' = "running"
    /\ UNCHANGED <<registered, added, ctx, funcs, idx, got, nsig, firstReg, dropped, late, ignored>>
    /\ UNCHANGED lvars

\* f() returns: the loop goes on with the next callback
CallbackReturn ==
    /\ pc = "running"
    /\ trace' = Append(trace, <<"ret">> \o CallbackAt(funcs, idx))
    /\ idx' = idx + 1
    /\ pc' = "dispatching"
    /\ UNCHANGED <<registered, added, ctx, funcs, got, nsig, firstReg, dropped, late, ignored>>
    /\ UNCHANGED lvars

\* f() panics: Close has no recover, the panic unwinds Close
CallbackPanicRecovered ==
    /\ pc = "running"
    /\ trace' = Append(trace, <<"panic">> \o CallbackAt(funcs, idx))
    /\ idx' = idx + 1
    /\ pc' = "dispatching"
    /\ UNCHANGED <<registered, added, ctx, funcs, got, nsig, firstReg, dropped, late, ignored>>
    /\ UNCHANGED lvars
CallbackPanic ==
    /\ pc = "running"
    /\ trace' = Append(trace, <<"panic">> \o CallbackAt(funcs, idx))
    /\ pc' = "panicked"
    /\ UNCHANGED <<registered, added, ctx, funcs, idx, got, nsig, firstReg, dropped, late, ignored>>
    /\ UNCHANGED lvars

\* the range loop is exhausted: Close returns
CloseReturn ==
    /\ pc = "dispatching"
    /\ idx > Len(funcs)
    /\ pc' = "returned"
    /\ UNCHANGED <<registered, added, ctx, funcs, idx, trace, got, nsig, firstReg, dropped, late, ignored>>
    /\ UNCHANGED lvars

HookNext ==
    \/ \E S \in (SUBSET ExtraSignals) \ {{}} : WithSignals(S)
    \/ \E s \in AllSignals : SignalArrives(s)
    \/ \E fs \in FuncLists : CloseCall(fs)
    \/ CloseReceive
    \/ CloseStop
    \/ CallbackStart
    \/ CallbackReturn
    \/ CallbackPanic
    \/ CloseReturn

(***************************************************************************)
(*                       PART II : package logger                          *)
(***************************************************************************)

\* zapcore.Level, in its order
Severities == {"debug", "info", "warn", "error", "fatal"}
Rank == [debug |-> -1, info |-> 0, warn |-> 1, error |-> 2, fatal |-> 5]
ErrorLevel == "error"

\* const DefaultLevel, DefaultTimeLayout
DefaultLevel == "info"
DefaultTimeLayout == "RFC3339"

Layouts == {"", "CST"}
FieldKeys == {"domain", "env"}
FieldValues == [domain |-> {"x", "y"}, env |-> {"fat"}]

\* The file system the options run against: a path whose directory cannot be
\* created, one whose directory exists but whose file cannot be opened, and one
\* that works.
Paths == {"logs/a.log", "nodir/a.log", "logs/ro.log"}
DirCreatable(path) == path # "nodir/a.log"
FileOpenable(path) == path = "logs/a.log"

Opt(op, a, b) == [op |-> op, a |-> a, b |-> b]

Options ==
    {Opt(o, "", "") : o \in {"WithDebugLevel", "WithInfoLevel", "WithWarnLevel",
                             "WithErrorLevel", "WithDisableConsole"}}
    \cup UNION {{Opt("WithField", k, v) : v \in FieldValues[k]} : k \in FieldKeys}
    \cup {Opt("WithFileP", path, "") : path \in Paths}
    \cup {Opt("WithFileRotationP", path, "") : path \in Paths}
    \cup {Opt("WithTimeLayout", l, "") : l \in Layouts}

NoFile == [kind |-> "none", path |-> ""]

\* opt := &option{level: DefaultLevel, fields: make(map[string]string)}
NewOption ==
    [level |-> DefaultLevel, fields |-> <<>>, file |-> NoFile,
     timeLayout |-> "", disableConsole |-> FALSE]

\* What runs when the option constructor is called, before NewJSONLogger:
\* WithFileP does MkdirAll and OpenFile and panics when either fails;
\* WithFileRotationP does MkdirAll only.
OptionPanicsOnMkdirOnly(o) ==
    o.op \in {"WithFileP", "WithFileRotationP"} /\ ~DirCreatable(o.a)
OptionPanics(o) ==
    \/ o.op = "WithFileP" /\ (~DirCreatable(o.a) \/ ~FileOpenable(o.a))
    \/ o.op = "WithFileRotationP" /\ ~DirCreatable(o.a)

\* The closure an option constructor returns, applied to opt.
ApplyFirstFieldWins(o, opt) ==
    CASE o.op = "WithDebugLevel" -> [opt EXCEPT !.level = "debug"]
      [] o.op = "WithInfoLevel" -> [opt EXCEPT !.level = "info"]
      [] o.op = "WithWarnLevel" -> [opt EXCEPT !.level = "warn"]
      [] o.op = "WithErrorLevel" -> [opt EXCEPT !.level = "error"]
      [] o.op = "WithField" -> [opt EXCEPT !.fields = opt.fields @@ (o.a :> o.b)]
      [] o.op = "WithFileP" -> [opt EXCEPT !.file = [kind |-> "append", path |-> o.a]]
      [] o.op = "WithFileRotationP" -> [opt EXCEPT !.file = [kind |-> "rotate", path |-> o.a]]
      [] o.op = "WithTimeLayout" -> [opt EXCEPT !.timeLayout = o.a]
      [] o.op = "WithDisableConsole" -> [opt EXCEPT !.disableConsole = TRUE]
Apply(o, opt) ==
    CASE o.op = "WithDebugLevel" -> [opt EXCEPT !.level = "debug"]
      [] o.op = "WithInfoLevel" -> [opt EXCEPT !.level = "info"]
      [] o.op = "WithWarnLevel" -> [opt EXCEPT !.level = "warn"]
      [] o.op = "WithErrorLevel" -> [opt EXCEPT !.level = "error"]
      [] o.op = "WithField" -> [opt EXCEPT !.fields = (o.a :> o.b) @@ opt.fields]
      [] o.op = "WithFileP" -> [opt EXCEPT !.file = [kind |-> "append", path |-> o.a]]
      [] o.op = "WithFileRotationP" -> [opt EXCEPT !.file = [kind |-> "rotate", path |-> o.a]]
      [] o.op = "WithTimeLayout" -> [opt EXCEPT !.timeLayout = o.a]
      [] o.op = "WithDisableConsole" -> [opt EXCEPT !.disableConsole = TRUE]

\* for _, f := range opts { f(opt) }
RECURSIVE ApplyAll(_, _)
ApplyAll(os, opt) ==
    IF os = <<>> THEN opt ELSE ApplyAll(Tail(os), Apply(Head(os), opt))

\* timeLayout := DefaultTimeLayout; if opt.timeLayout != "" { timeLayout = opt.timeLayout }
EffectiveLayout(opt) ==
    IF opt.timeLayout # "" THEN opt.timeLayout ELSE DefaultTimeLayout

\* The three LevelEnablerFuncs of NewJSONLogger
LowPriorityNoCeiling(lvl, level) == Rank[lvl] >= Rank[level]
LowPriority(lvl, level) == Rank[lvl] >= Rank[level] /\ Rank[lvl] < Rank[ErrorLevel]
HighPriority(lvl, level) == Rank[lvl] >= Rank[level] /\ Rank[lvl] >= Rank[ErrorLevel]
FileEnabledStrict(lvl, level) == Rank[lvl] > Rank[level]
FileEnabled(lvl, level) == Rank[lvl] >= Rank[level]

LoggerInit ==
    /\ lpc = "args"
    /\ opts = <<>>
    /\ logger = [built |-> FALSE]
    /\ err = None
    /\ stdout = <<>>
    /\ stderr = <<>>
    /\ file = <<>>
    /\ emitted = <<>>

\* NewMeta(key, value)
NewMeta(key, value) == [key |-> key, value |-> value]

\* The per-call arguments of an emission: WrapMeta(nil) and
\* WrapMeta(err, NewMeta("uid", 7))
CallArgs == {[err |-> "nil", metas |-> <<>>],
             [err |-> "boom", metas |-> <<NewMeta("uid", "7")>>]}

Field(kind, key, value) == [kind |-> kind, key |-> key, value |-> value]

MetaFields(metas) == [i \in 1..Len(metas) |-> Field("any", metas[i].key, metas[i].value)]

\* WrapMeta(err, metas...): the error field when err # nil, then the namespace
\* "meta", then one field per Meta.
WrapMetaNamespaceLast(e, metas) ==
    (IF e # "nil" THEN <<Field("error", "error", e)>> ELSE <<>>)
    \o MetaFields(metas)
    \o <<Field("namespace", "meta", "")>>
WrapMeta(e, metas) ==
    (IF e # "nil" THEN <<Field("error", "error", e)>> ELSE <<>>)
    \o <<Field("namespace", "meta", "")>>
    \o MetaFields(metas)

\* t.Format(timeLayout)
TimeText(layout) ==
    CASE layout = "RFC3339" -> "2026-01-02T15:04:05+08:00"
      [] layout = "CST" -> "2026-01-02 15:04:05"
      [] OTHER -> ""

\* zap's JSON encoder on a list of fields: a namespace field opens a nested
\* object and every later field goes into it; the fields before it stay at the
\* top level.
RECURSIVE AddFields(_, _, _)
AddFields(fields, rec, ns) ==
    IF fields = <<>> THEN rec
    ELSE LET f == Head(fields)
         IN  IF f.kind = "namespace"
             THEN AddFields(Tail(fields),
                            [rec EXCEPT !.groups = (f.key :> <<>>) @@ rec.groups], f.key)
             ELSE IF ns = None
             THEN AddFields(Tail(fields),
                            [rec EXCEPT !.top = (f.key :> f.value) @@ rec.top], ns)
             ELSE AddFields(Tail(fields),
                            [rec EXCEPT !.groups[ns] = (f.key :> f.value) @@ rec.groups[ns]], ns)

\* for key, value := range opt.fields { logger = logger.WithOptions(zap.Fields(...)) }
\* the static fields become part of the logger's own context
RECURSIVE StaticFields(_)
StaticFields(fields) ==
    IF DOMAIN fields = {} THEN <<>>
    ELSE LET k == CHOOSE key \in DOMAIN fields : TRUE
         IN  <<Field("string", k, fields[k])>>
             \o StaticFields([key \in DOMAIN fields \ {k} |-> fields[key]])

\* One record as the JSON encoder of NewJSONLogger writes it: the entry's own
\* keys, the logger's static fields, then the fields of the call.
EncodeEntry(lg, sev, msg, fields) ==
    LET entry == [top |-> ("level" :> sev) @@ ("time" :> TimeText(lg.timeLayout))
                          @@ ("caller" :> "main.go:95") @@ ("msg" :> msg),
                  groups |-> <<>>]
        withStatic == AddFields(StaticFields(lg.opt.fields), entry, None)
    IN  AddFields(fields, withStatic, None)

\* What zap writes to its ErrorOutput when a core's write fails
WriteError == [top |-> ("internal" :> "write error"), groups |-> <<>>]

\* The caller evaluates the next argument of NewJSONLogger(...)
EvalOption(o) ==
    /\ lpc = "args"
    /\ Len(opts) < MaxOpts
    /\ opts' = Append(opts, o)
    /\ lpc' = IF OptionPanics(o) THEN "panicked" ELSE "args"
    /\ UNCHANGED <<logger, err, stdout, stderr, file, emitted>>
    /\ UNCHANGED hvars

\* NewJSONLogger(opts...)
NewJSONLogger ==
    /\ lpc = "args"
    /\ LET opt == ApplyAll(opts, NewOption)
       IN  logger' = [built |-> TRUE, opt |-> opt, timeLayout |-> EffectiveLayout(opt)]
    /\ err' = "nil"
    /\ lpc' = "built"
    /\ opts' = <<>>
    /\ UNCHANGED <<stdout, stderr, file, emitted>>
    /\ UNCHANGED hvars

\* The file of a rotating destination is opened by the first write, the file of
\* an append destination was opened by WithFileP.
FileWritable(f) == f.kind = "append" \/ (f.kind = "rotate" /\ FileOpenable(f.path))

\* logger.<Level>(msg, WrapMeta(err, metas...)...)
Emit(sev, e, metas) ==
    /\ lpc = "built"
    /\ Len(emitted) < MaxEmits
    /\ LET rec == EncodeEntry(logger, sev, "m", WrapMeta(e, metas))
           level == logger.opt.level
           console == ~logger.opt.disableConsole
           toFile == logger.opt.file.kind # "none" /\ FileEnabled(sev, level)
           fileOK == FileWritable(logger.opt.file)
       IN  /\ stdout' = IF console /\ LowPriority(sev, level)
                        THEN Append(stdout, rec) ELSE stdout
           /\ stderr' = stderr
                        \o (IF console /\ HighPriority(sev, level) THEN <<rec>> ELSE <<>>)
                        \o (IF toFile /\ ~fileOK THEN <<WriteError>> ELSE <<>>)
           /\ file' = IF toFile /\ fileOK THEN Append(file, rec) ELSE file
    /\ emitted' = Append(emitted, [sev |-> sev, err |-> e, metas |-> metas])
    /\ lpc' = IF sev = "fatal" THEN "exited" ELSE "built"
    /\ UNCHANGED <<opts, logger, err>>
    /\ UNCHANGED hvars

LoggerNext ==
    \/ \E o \in Options : EvalOption(o)
    \/ NewJSONLogger
    \/ \E sev \in Severities, a \in CallArgs : Emit(sev, a.err, a.metas)

(***************************************************************************)
(*                          Specifications                                 *)
(***************************************************************************)
Init == HookInit /\ LoggerInit

HookSpec == Init /\ [][HookNext]_vars
LoggerSpec == Init /\ [][LoggerNext]_vars

(***************************************************************************)
(* Properties of the shutdown hook.                                        *)
(***************************************************************************)
IsPrefix(p, q) == Len(p) <= Len(q) /\ \A j \in 1..Len(p) : p[j] = q[j]

\* What a run of Close(fs) without a failing callback does, in order.
Expected(fs) ==
    [j \in 1..(2 * Len(fs)) |->
        IF j % 2 = 1 THEN <<"call", (j + 1) \div 2, fs[(j + 1) \div 2]>>
                     ELSE <<"ret", j \div 2, fs[j \div 2]>>]

NoPanic == \A j \in 1..Len(trace) : trace[j][1] # "panic"

HookSignals == DefaultSignals \cup added

\* C1: when no callback fails, the callbacks run strictly in the order given,
\* one at a time (each call is followed by its own return before the next
\* call), each position exactly once, and Close has returned only when the
\* last callback has returned.
C1_OrderedDispatch ==
    NoPanic =>
        /\ IsPrefix(trace, Expected(funcs))
        /\ (pc = "returned" => trace = Expected(funcs))
        /\ (pc = "running" <=> Len(trace) % 2 = 1)
        /\ (trace # <<>> => got \in HookSignals)

C1_Witness ==
    /\ pc = "returned"
    /\ NoPanic
    /\ Len(funcs) >= 3
    /\ funcs[1] # funcs[2]
    /\ trace = Expected(funcs)

\* C2: as long as no registered signal was raised Close has not got past its
\* wait and no callback has run; the set relayed to the hook is SIGINT and
\* SIGTERM plus every signal given to WithSignals; whichever of them sits in
\* the channel lets the waiting Close go on; a signal outside the set never
\* enters the channel and is never what Close received.
C2_BlocksUntilRegisteredSignal ==
    /\ (pc \in {"idle", "waiting", "received"} => registered = HookSignals)
    /\ (firstReg.sig = None => pc \in {"idle", "waiting"} /\ trace = <<>> /\ got = None)
    /\ (got # None => got \in HookSignals)
    /\ \A j \in 1..Len(ctx) : ctx[j] \in HookSignals
    /\ (pc = "waiting" /\ ctx # <<>> => ENABLED CloseReceive)
    /\ (pc = "waiting" /\ ctx = <<>> => ~ENABLED CloseReceive)

C2_Witness ==
    /\ pc = "returned"
    /\ ignored
    /\ got = "SIGHUP"
    /\ nsig = 2
    /\ Len(trace) >= 2

\* C3: when callback k panics, the callbacks before it have run to completion
\* in order, callback k was entered, nothing was invoked after it, and Close
\* ended by that panic (it neither recovered nor went on).
C3_PanicAborts ==
    /\ (~NoPanic => pc = "panicked")
    /\ (pc = "panicked" =>
            /\ idx \in 1..Len(funcs)
            /\ trace = SubSeq(Expected(funcs), 1, 2 * (idx - 1))
                       \o << <<"call", idx, funcs[idx]>>, <<"panic", idx, funcs[idx]>> >>)

C3_Witness ==
    /\ pc = "panicked"
    /\ Len(funcs) = 3
    /\ idx = 2
    /\ Len(trace) = 4

CallsAt(i) == Cardinality({j \in 1..Len(trace) : trace[j][1] = "call" /\ trace[j][2] = i})

C10_SingleSlot ==
    /\ Len(ctx) <= ChanCap
    /\ (pc \in {"idle", "waiting"} /\ firstReg.sig # None => ctx = <<firstReg.sig>>)
    /\ (got # None => got = firstReg.sig)

C10_Witness ==
    /\ pc = "returned"
    /\ firstReg.at = "idle"
    /\ dropped
    /\ nsig = 2
    /\ got = firstReg.sig
    /\ Len(trace) >= 2

(***************************************************************************)
(* Properties of the logger.                                               *)
(***************************************************************************)
Built == lpc \in {"built", "exited"}

Floor == logger.opt.level

Sevs(es) == [i \in 1..Len(es) |-> es[i].sev]
Levels(recs) == [i \in 1..Len(recs) |-> recs[i].top["level"]]

IsRecord(r) == "level" \in DOMAIN r.top
RecordsOf(sink) == SelectSeq(sink, IsRecord)

\* the emissions at or above the floor, in the order they were made
AtOrAboveFloor(e) == Rank[e.sev] >= Rank[Floor]
Accepted == SelectSeq(emitted, AtOrAboveFloor)

BelowError(e) == Rank[e.sev] < Rank["error"]
ErrorOrAbove(e) == Rank[e.sev] >= Rank["error"]

\* C5: with a file destination that can be written, the file holds exactly the
\* emitted records whose severity is at or above the floor, one record each, in
\* order, whatever their severity above it (an emission below the floor leaves
\* the file as it was).
C5_FileFloor ==
    (Built /\ logger.opt.file.kind # "none" /\ FileWritable(logger.opt.file)) =>
        /\ Levels(file) = Sevs(Accepted)
        /\ \A i \in 1..Len(file) : IsRecord(file[i])

C5_Witness ==
    /\ Built
    /\ Floor = "warn"
    /\ logger.opt.disableConsole
    /\ logger.opt.file = [kind |-> "append", path |-> "logs/a.log"]
    /\ Sevs(emitted) = <<"info", "warn">>
    /\ Levels(file) = <<"warn">>
    /\ stdout = <<>>
    /\ stderr = <<>>

\* C6: with the console enabled stdout holds exactly the emissions with
\* floor <= severity < Error and stderr exactly those at or above the floor and
\* at or above Error, so each emission at or above the floor is on exactly one
\* stream once and one below the floor on neither; with the console disabled
\* no record is on either stream, and a logger without console and file takes
\* every emission, delivers nothing and reports no error.
C6_ConsoleBands ==
    Built =>
        /\ ~logger.opt.disableConsole =>
              /\ Levels(stdout) = Sevs(SelectSeq(Accepted, BelowError))
              /\ Levels(RecordsOf(stderr)) = Sevs(SelectSeq(Accepted, ErrorOrAbove))
              /\ Len(stdout) + Len(RecordsOf(stderr)) = Len(Accepted)
        /\ logger.opt.disableConsole => stdout = <<>> /\ RecordsOf(stderr) = <<>>
        /\ (logger.opt.disableConsole /\ logger.opt.file.kind = "none") =>
              stdout = <<>> /\ stderr = <<>> /\ file = <<>> /\ err = "nil"

C6_Witness ==
    /\ Built
    /\ ~logger.opt.disableConsole
    /\ Floor = "info"
    /\ Sevs(emitted) = <<"warn", "error">>
    /\ Levels(stdout) = <<"warn">>
    /\ Levels(stderr) = <<"error">>

LevelOps == {"WithDebugLevel", "WithInfoLevel", "WithWarnLevel", "WithErrorLevel"}
LevelOf(op) ==
    CASE op = "WithDebugLevel" -> "debug"
      [] op = "WithInfoLevel" -> "info"
      [] op = "WithWarnLevel" -> "warn"
      [] op = "WithErrorLevel" -> "error"

Max(S) == CHOOSE x \in S : \A y \in S : y <= x

\* the positions of os that hold one of the options ops
Where(os, ops) == {i \in 1..Len(os) : os[i].op \in ops}

LastLevel(os) ==
    IF Where(os, LevelOps) = {} THEN "info"
    ELSE LevelOf(os[Max(Where(os, LevelOps))].op)

\* the layout the last WithTimeLayout names, the default without one
LastLayout(os) ==
    IF Where(os, {"WithTimeLayout"}) = {} THEN DefaultTimeLayout
    ELSE os[Max(Where(os, {"WithTimeLayout"}))].a

\* as LastLayout, but a last WithTimeLayout("") counts as the default
LastLayoutOrDefault(os) ==
    IF LastLayout(os) = "" THEN DefaultTimeLayout ELSE LastLayout(os)

\* the union of the WithField entries, the last value of a key winning
FieldUnion(os) ==
    LET keys == {os[i].a : i \in Where(os, {"WithField"})}
    IN  [k \in keys |-> os[Max({i \in Where(os, {"WithField"}) : os[i].a = k})].b]

SameMap(f, g) == DOMAIN f = DOMAIN g /\ \A k \in DOMAIN f : f[k] = g[k]

BuildStep == lpc = "args" /\ lpc' = "built"

\* C7 as stated: the logger NewJSONLogger returns has the floor and the time
\* layout of the last option that sets them (Info and the default layout
\* without one), the union of the WithField entries, and the console enabled
\* unless WithDisableConsole was given.
C7_LastOptionWins ==
    [][BuildStep =>
          /\ logger'.opt.level = LastLevel(opts)
          /\ logger'.timeLayout = LastLayout(opts)
          /\ SameMap(logger'.opt.fields, FieldUnion(opts))
          /\ logger'.opt.disableConsole = (Where(opts, {"WithDisableConsole"}) # {})]_vars

\* C7, amended: as C7_LastOptionWins, except that the time layout is the
\* default also when the last WithTimeLayout names the empty layout.
C7_LastOptionWinsNonEmptyLayout ==
    [][BuildStep =>
          /\ logger'.opt.level = LastLevel(opts)
          /\ logger'.timeLayout = LastLayoutOrDefault(opts)
          /\ SameMap(logger'.opt.fields, FieldUnion(opts))
          /\ logger'.opt.disableConsole = (Where(opts, {"WithDisableConsole"}) # {})]_vars

C7_Witness ==
    /\ lpc = "args"
    /\ opts = <<Opt("WithField", "domain", "x"), Opt("WithWarnLevel", "", ""),
                Opt("WithField", "domain", "y")>>
    /\ ENABLED (NewJSONLogger /\ logger'.opt.fields["domain"] = "y"
                              /\ logger'.opt.level = "warn"
                              /\ logger'.timeLayout = DefaultTimeLayout)

\* the logger's static fields are top-level keys of record r
StaticAtTop(r) ==
    \A k \in DOMAIN logger.opt.fields :
        k \in DOMAIN r.top /\ r.top[k] = logger.opt.fields[k]

MetaGroupOf(e) == [k \in {e.metas[j].key : j \in 1..Len(e.metas)} |->
                      (CHOOSE m \in {e.metas[j] : j \in 1..Len(e.metas)} : m.key = k).value]

FileLogger == Built /\ logger.opt.file.kind # "none" /\ FileWritable(logger.opt.file)

\* C8 as stated: a record emitted with per-call Metas through a logger with
\* static fields has a "meta" group that holds the static fields and the Metas.
C8_StaticFieldsInMetaGroup ==
    FileLogger =>
        \A i \in 1..Len(file) :
            Accepted[i].metas # <<>> =>
                /\ "meta" \in DOMAIN file[i].groups
                /\ \A k \in DOMAIN logger.opt.fields :
                      /\ k \in DOMAIN file[i].groups["meta"]
                      /\ file[i].groups["meta"][k] = logger.opt.fields[k]
                /\ \A k \in DOMAIN MetaGroupOf(Accepted[i]) :
                      /\ k \in DOMAIN file[i].groups["meta"]
                      /\ file[i].groups["meta"][k] = MetaGroupOf(Accepted[i])[k]

\* C8, amended: the "meta" group of a record holds exactly the per-call Metas;
\* the logger's static fields are top-level keys of the record, beside msg,
\* level and time (and error, when an error was wrapped).
C8_MetasInGroupStaticAtTop ==
    /\ FileLogger =>
          \A i \in 1..Len(file) :
              /\ "meta" \in DOMAIN file[i].groups
              /\ SameMap(file[i].groups["meta"], MetaGroupOf(Accepted[i]))
              /\ StaticAtTop(file[i])
              /\ file[i].top["msg"] = "m"
              /\ file[i].top["level"] = Accepted[i].sev
              /\ file[i].top["time"] = TimeText(logger.timeLayout)
              /\ ("error" \in DOMAIN file[i].top) = (Accepted[i].err # "nil")
    /\ Built =>
          \A sink \in {stdout, RecordsOf(stderr)} : \A i \in 1..Len(sink) :
              /\ StaticAtTop(sink[i])
              /\ DOMAIN sink[i].groups = {"meta"}
              /\ DOMAIN sink[i].groups["meta"] \subseteq {"uid"}

C8_Witness ==
    /\ FileLogger
    /\ "domain" \in DOMAIN logger.opt.fields
    /\ logger.opt.fields["domain"] = "x"
    /\ Len(file) >= 1
    /\ Accepted[1].metas = <<NewMeta("uid", "7")>>
    /\ file[1].top["domain"] = "x"
    /\ SameMap(file[1].groups["meta"], "uid" :> "7")

FileFails(path) == ~DirCreatable(path) \/ ~FileOpenable(path)

\* C9 as stated: no logger exists whose file destination's directory cannot be
\* created or whose file cannot be opened, and no emission meets that failure.
C9_FileFailureAbortsBuild ==
    /\ Built /\ logger.opt.file.kind # "none" => ~FileFails(logger.opt.file.path)
    /\ \A i \in 1..Len(stderr) : IsRecord(stderr[i])

\* C9, amended: a directory that cannot be created (either file option) or an
\* append file that cannot be opened (WithFileP) aborts the build by a panic of
\* the option constructor: NewJSONLogger never runs, nothing is returned,
\* nothing is emitted. NewJSONLogger itself returns no error. A rotating file is
\* opened by the first write only, so only its open failure meets an emission.
C9_FailurePanicsInOption ==
    /\ lpc = "panicked" =>
          /\ opts # <<>>
          /\ opts[Len(opts)].op \in {"WithFileP", "WithFileRotationP"}
          /\ FileFails(opts[Len(opts)].a)
          /\ ~logger.built
          /\ err = None
          /\ emitted = <<>>
    /\ lpc = "args" =>
          \A i \in 1..Len(opts) :
              /\ opts[i].op = "WithFileP" => ~FileFails(opts[i].a)
              /\ opts[i].op = "WithFileRotationP" => DirCreatable(opts[i].a)
    /\ Built =>
          /\ err = "nil"
          /\ logger.opt.file.kind = "append" => ~FileFails(logger.opt.file.path)
          /\ logger.opt.file.kind = "rotate" => DirCreatable(logger.opt.file.path)
          /\ (\E i \in 1..Len(stderr) : ~IsRecord(stderr[i])) =>
                logger.opt.file.kind = "rotate" /\ ~FileOpenable(logger.opt.file.path)

C9_Witness ==
    /\ lpc = "panicked"
    /\ Len(opts) = 2
    /\ opts[2] = Opt("WithFileP", "logs/ro.log", "")
    /\ ~logger.built

=============================================================================
